---- MODULE Spec2Model ----
(***************************************************************************)
(* Verification model of the ACE Migration Estimator front end and of the  *)
(* estimation engine it calls.                                             *)
(*                                                                         *)
(*   Spec        LiveEstimateWidget as a component: its props change, its  *)
(*               debounce timer fires, its calls resolve or reject.        *)
(*   SpecForm    the same widget driven by QuestionnaireForm: the props    *)
(*               are the form values, changed one registered field at a    *)
(*               time, starting from the form's defaultValues.             *)
(*   SpecEngine  the estimation engine (rules calculator + synthesizer) as *)
(*               a function applied to bounded inputs.                     *)
(*   SpecLive    Spec with the fairness the event loop gives: a timer that *)
(*               is pending does fire. Nothing makes a call settle.        *)
(*   SpecWizard  QuestionnaireForm's three steps, its submit handler and   *)
(*               App's switch between questionnaire and report.            *)
(*   SpecProfile the questionnaire up to the call of its Generate Report   *)
(*               button, with the two NumberInputs no step check reads.    *)
(*   SpecBaseline  the rules calculator called repeatedly while the corpus *)
(*               changes.                                                  *)
(*   SpecPipeline  similarity retrieval followed by the engine.            *)
(*   SpecExamples  the engine applied to the two worked examples.          *)
(***************************************************************************)
EXTENDS Integers, Sequences, FiniteSets, TLC

VARIABLES
    questionnaireData,  \* the widget's prop (QuestionnaireForm: formData = watch())
    mutations,          \* number of prop changes seen so far (0 = the mount render)
    timers,             \* pending setTimeout(fetchEstimate, 500) callbacks
    fired,              \* renders whose timer has fired
    superseded,         \* renders replaced by a newer one before their timer fired
    requests,           \* calculateLiveEstimate calls: in flight, resolved, rejected
    estimate,           \* useState<LiveEstimate | null>
    loading,            \* useState(false)
    emitted,            \* number of setEstimate calls made so far
    engineIn,           \* the engine's input of the current invocation
    engineOut,          \* the Estimate the engine returned for it
    formData,           \* QuestionnaireForm: the form values, watch()
    activeStep,         \* QuestionnaireForm: useState(0)
    formLoading,        \* QuestionnaireForm: loading, useState(false)
    error,              \* QuestionnaireForm: useState<string | null>(null)
    reportRequests,     \* generateReport calls: in flight, resolved, rejected
    formInstance,       \* which mount of QuestionnaireForm is on screen
    currentStep,        \* App: 'questionnaire' | 'report'
    estimationReport,   \* App: useState<EstimationReport | null>(null)
    retrievalIn,        \* the retrieval adapter's input of the current invocation
    retrieved           \* the list it returned

widgetVars == <<questionnaireData, mutations, timers, fired, superseded, requests, estimate,
               loading, emitted>>
engineVars == <<engineIn, engineOut>>
wizardVars == <<formData, activeStep, formLoading, error, reportRequests, formInstance,
               currentStep, estimationReport>>
retrievalVars == <<retrievalIn, retrieved>>
vars == <<questionnaireData, mutations, timers, fired, superseded, requests, estimate, loading,
          emitted, engineIn, engineOut, formData, activeStep, formLoading, error,
          reportRequests, formInstance, currentStep, estimationReport, retrievalIn, retrieved>>

(***************************************************************************)
(* Bounds                                                                  *)
(***************************************************************************)
MaxMutations == 3
MaxNeighbours == 2
MaxReports == 2
MaxFormInstances == 2
MaxBaselineCalls == 2

(***************************************************************************)
(* Questionnaire values                                                    *)
(***************************************************************************)
\* JavaScript's undefined, for a field no component registers and no default sets.
Undefined == "undefined"

\* Values the total-flows NumberInput is given in the model.
FlowValues == {0, 150}

\* Values of general_info.team_band a caller of the widget may pass.
TeamBandValues == {Undefined, "band_7"}

VersionValues == {"", "IIB_v10"}

EnvironmentValues == {"DEV", "PROD"}

\* useForm defaultValues, restricted to the fields the widget gate and the
\* section checks read. product_version and team_band have no default.
defaultValues ==
    [ product_version |-> "",
      total_flows     |-> 0,
      environments    |-> {},
      team_band       |-> Undefined ]

\* const hasMinimalData = total_flows && general_info?.team_band
hasMinimalData(data) ==
    /\ data.total_flows # 0
    /\ data.team_band # Undefined
    /\ data.team_band # ""

(***************************************************************************)
(* LiveEstimate values                                                     *)
(***************************************************************************)
\* estimate === null
NoEstimate == [req |-> 0, data |-> defaultValues, is_complete |-> FALSE, missing_fields |-> {}]

\* The is_complete / missing_fields parts of the bodies the server may answer with.
Responses ==
    { [is_complete |-> TRUE,  missing_fields |-> {}],
      [is_complete |-> TRUE,  missing_fields |-> {"target_environment.product_version"}],
      [is_complete |-> FALSE, missing_fields |-> {"target_environment.product_version"}] }

\* What the widget renders.
view ==
    IF loading THEN "loading"
    ELSE IF estimate # NoEstimate /\ estimate.is_complete THEN "estimate"
    ELSE "empty"

\* The "Missing Data" notification is part of what is rendered.
missingFieldsShown == view = "estimate" /\ estimate.missing_fields # {}

(***************************************************************************)
(* LiveEstimateWidget                                                      *)
(***************************************************************************)
\* A variant whose cleanup clears nothing.
clearTimeoutNoop(ts, mut) == ts

\* The effect's cleanup: return () => clearTimeout(timeoutId)
clearTimeout(ts, mut) == {t \in ts : t.mut # mut}

\* useEffect(..., [questionnaireData]): the previous effect is cleaned up and
\* a new 500 ms timer is started whose callback closes over the new props.
runEffect(data) ==
    /\ mutations < MaxMutations
    /\ questionnaireData' = data
    /\ mutations' = mutations + 1
    /\ timers' = clearTimeout(timers, mutations) \cup {[mut |-> mutations + 1, data |-> data]}
    /\ superseded' = IF mutations \in fired THEN superseded ELSE superseded \cup {mutations}
    /\ UNCHANGED <<fired, requests, estimate, loading, emitted>>

\* The parent re-renders the widget with new props.
Mutate ==
    /\ \E f \in FlowValues, b \in TeamBandValues :
          runEffect([questionnaireData EXCEPT !.total_flows = f, !.team_band = b])
    /\ UNCHANGED <<engineVars, wizardVars, retrievalVars>>

\* The timer fires: fetchEstimate runs up to its await.
TimerFire ==
    /\ \E t \in timers :
          /\ timers' = timers \ {t}
          /\ fired' = fired \cup {t.mut}
          /\ IF hasMinimalData(t.data)
             THEN /\ loading' = TRUE
                  /\ requests' = requests \cup
                        {[id |-> Cardinality(requests) + 1, mut |-> t.mut,
                          data |-> t.data, state |-> "inflight"]}
             ELSE UNCHANGED <<loading, requests>>
    /\ UNCHANGED <<questionnaireData, mutations, superseded, estimate, emitted, engineVars,
                   wizardVars, retrievalVars>>

\* setEstimate(result), as the code does it.
setEstimate(r, body) ==
    [req |-> r.id, data |-> r.data,
     is_complete |-> body.is_complete, missing_fields |-> body.missing_fields]

\* await resolves: setEstimate(result); finally setLoading(false)
Resolve ==
    /\ \E r \in requests, body \in Responses :
          /\ r.state = "inflight"
          /\ estimate' = setEstimate(r, body)
          /\ emitted' = emitted + 1
          /\ loading' = FALSE
          /\ requests' = (requests \ {r}) \cup {[r EXCEPT !.state = "ok"]}
    /\ UNCHANGED <<questionnaireData, mutations, timers, fired, superseded, engineVars,
                   wizardVars, retrievalVars>>

\* A variant whose catch block resets the estimate.
RejectClearingEstimate ==
    /\ \E r \in requests :
          /\ r.state = "inflight"
          /\ estimate' = NoEstimate
          /\ loading' = FALSE
          /\ requests' = (requests \ {r}) \cup {[r EXCEPT !.state = "failed"]}
    /\ UNCHANGED <<questionnaireData, mutations, timers, fired, superseded, emitted,
                   engineVars, wizardVars, retrievalVars>>

\* await rejects: console.error; finally setLoading(false)
Reject ==
    /\ \E r \in requests :
          /\ r.state = "inflight"
          /\ loading' = FALSE
          /\ requests' = (requests \ {r}) \cup {[r EXCEPT !.state = "failed"]}
    /\ UNCHANGED <<questionnaireData, mutations, timers, fired, superseded, estimate, emitted,
                   engineVars, wizardVars, retrievalVars>>

\* The engine is not part of the widget's state.
NoInput == [used |-> FALSE]
EngineIdle == engineIn = NoInput /\ engineOut = NoInput
RetrievalIdle == retrievalIn = NoInput /\ retrieved = NoInput

\* No widget is mounted.
WidgetIdle ==
    /\ questionnaireData = defaultValues
    /\ mutations = 0
    /\ timers = {}
    /\ fired = {}
    /\ superseded = {}
    /\ requests = {}
    /\ estimate = NoEstimate
    /\ loading = FALSE
    /\ emitted = 0

(***************************************************************************)
(* QuestionnaireForm and App: values                                       *)
(***************************************************************************)
\* useForm defaultValues, restricted to the fields isStepValid reads. Neither
\* product_version has a default.
formDefaults ==
    [ source_version       |-> "",
      total_flows          |-> 0,
      source_environments  |-> {},
      configurable_services |-> 0,
      target_version       |-> "",
      target_environments  |-> {},
      applications_in_scope |-> 0,
      migration_drivers    |-> {} ]

TargetVersionValues == {"", "ACE_v12"}
TargetEnvironmentValues == {"DEV"}
SourceEnvironmentValues == {"DEV"}
MigrationDriverValues == {"version_upgrade"}

\* error === null
NoError == "null"

\* estimationReport === null
NoReport == [req |-> 0, data |-> formDefaults]

\* QuestionnaireForm as it mounts.
FormMounted ==
    /\ formData = formDefaults
    /\ activeStep = 0
    /\ formLoading = FALSE
    /\ error = NoError

\* App as it mounts, showing a fresh QuestionnaireForm.
WizardIdle ==
    /\ FormMounted
    /\ reportRequests = {}
    /\ formInstance = 1
    /\ currentStep = "questionnaire"
    /\ estimationReport = NoReport

\* The widget after its first render and effect, with the form's default values.
Init ==
    /\ questionnaireData = defaultValues
    /\ mutations = 0
    /\ timers = {[mut |-> 0, data |-> defaultValues]}
    /\ fired = {}
    /\ superseded = {}
    /\ requests = {}
    /\ estimate = NoEstimate
    /\ loading = FALSE
    /\ emitted = 0
    /\ EngineIdle
    /\ WizardIdle
    /\ RetrievalIdle

Next == Mutate \/ TimerFire \/ Resolve \/ Reject

Spec == Init /\ [][Next]_vars

(***************************************************************************)
(* QuestionnaireForm as the widget's parent                                *)
(***************************************************************************)
\* One registered input changes: the Select of source_environment.product_version,
\* the total-flows NumberInput, or a source_environment.environments Checkbox.
\* watch() then hands the widget the new form values. No component registers
\* general_info.team_band and no setValue call names it.
FormChange ==
    /\ \/ \E v \in VersionValues \ {questionnaireData.product_version} :
             runEffect([questionnaireData EXCEPT !.product_version = v])
       \/ \E f \in FlowValues \ {questionnaireData.total_flows} :
             runEffect([questionnaireData EXCEPT !.total_flows = f])
       \/ \E e \in EnvironmentValues :
             runEffect([questionnaireData EXCEPT !.environments =
                           IF e \in @ THEN @ \ {e} ELSE @ \cup {e}])
    /\ UNCHANGED <<engineVars, wizardVars, retrievalVars>>

\* Resolve and Reject need a call in flight; C4_NoComputationFromForm shows that
\* under these two actions none is ever made, so they add no behaviour here.
NextForm == FormChange \/ TimerFire

SpecForm == Init /\ [][NextForm]_vars

(***************************************************************************)
(* QuestionnaireForm: steps, navigation and submission                     *)
(***************************************************************************)
\* isStepValid(), for the step given.
isStepValid(step, data) ==
    CASE step = 0 -> /\ data.source_version # ""
                     /\ data.total_flows > 0
                     /\ Cardinality(data.source_environments) > 0
      [] step = 1 -> /\ data.target_version # ""
                     /\ Cardinality(data.target_environments) > 0
      [] step = 2 -> Cardinality(data.migration_drivers) > 0
      [] OTHER    -> FALSE

\* getStepContent(0): only the inputs of SourceEnvironment are on screen.
EditSource ==
    /\ currentStep = "questionnaire"
    /\ activeStep = 0
    /\ \/ \E v \in VersionValues \ {formData.source_version} :
             formData' = [formData EXCEPT !.source_version = v]
       \/ \E f \in FlowValues \ {formData.total_flows} :
             formData' = [formData EXCEPT !.total_flows = f]
       \/ \E e \in SourceEnvironmentValues :
             formData' = [formData EXCEPT !.source_environments =
                             IF e \in @ THEN @ \ {e} ELSE @ \cup {e}]
    /\ UNCHANGED <<activeStep, formLoading, error, reportRequests, formInstance, currentStep,
                   estimationReport, widgetVars, engineVars, retrievalVars>>

\* getStepContent(1): only the inputs of TargetEnvironment are on screen.
EditTarget ==
    /\ currentStep = "questionnaire"
    /\ activeStep = 1
    /\ \/ \E v \in TargetVersionValues \ {formData.target_version} :
             formData' = [formData EXCEPT !.target_version = v]
       \/ \E e \in TargetEnvironmentValues :
             formData' = [formData EXCEPT !.target_environments =
                             IF e \in @ THEN @ \ {e} ELSE @ \cup {e}]
    /\ UNCHANGED <<activeStep, formLoading, error, reportRequests, formInstance, currentStep,
                   estimationReport, widgetVars, engineVars, retrievalVars>>

\* getStepContent(2): only the inputs of GeneralInfo are on screen.
EditGeneral ==
    /\ currentStep = "questionnaire"
    /\ activeStep = 2
    /\ \E d \in MigrationDriverValues :
          formData' = [formData EXCEPT !.migration_drivers =
                          IF d \in @ THEN @ \ {d} ELSE @ \cup {d}]
    /\ UNCHANGED <<activeStep, formLoading, error, reportRequests, formInstance, currentStep,
                   estimationReport, widgetVars, engineVars, retrievalVars>>

\* A variant of the Next button that is never disabled.
handleNextUnchecked ==
    /\ currentStep = "questionnaire"
    /\ activeStep < 2
    /\ activeStep' = activeStep + 1
    /\ UNCHANGED <<formData, formLoading, error, reportRequests, formInstance, currentStep,
                   estimationReport, widgetVars, engineVars, retrievalVars>>

\* The Next button: rendered on steps 0 and 1, disabled={!isStepValid()}.
handleNext ==
    /\ currentStep = "questionnaire"
    /\ activeStep < 2
    /\ isStepValid(activeStep, formData)
    /\ activeStep' = activeStep + 1
    /\ UNCHANGED <<formData, formLoading, error, reportRequests, formInstance, currentStep,
                   estimationReport, widgetVars, engineVars, retrievalVars>>

\* The Back button: disabled={activeStep === 0}.
handleBack ==
    /\ currentStep = "questionnaire"
    /\ activeStep > 0
    /\ activeStep' = activeStep - 1
    /\ UNCHANGED <<formData, formLoading, error, reportRequests, formInstance, currentStep,
                   estimationReport, widgetVars, engineVars, retrievalVars>>

\* onSubmit up to its await: setLoading(true); setError(null); generateReport(data).
\* handleSubmit passes the form values on: no input is registered with a rule.
onSubmit ==
    /\ Cardinality(reportRequests) < MaxReports
    /\ formLoading' = TRUE
    /\ error' = NoError
    /\ reportRequests' = reportRequests \cup
          {[id |-> Cardinality(reportRequests) + 1, data |-> formData, step |-> activeStep,
            instance |-> formInstance, state |-> "inflight"]}
    /\ UNCHANGED <<formData, activeStep, formInstance, currentStep, estimationReport,
                   widgetVars, engineVars, retrievalVars>>

\* The Generate Report button: type="submit", rendered on the last step,
\* disabled={loading || !isStepValid()}.
SubmitClick ==
    /\ currentStep = "questionnaire"
    /\ activeStep = 2
    /\ ~formLoading
    /\ isStepValid(activeStep, formData)
    /\ onSubmit

\* Enter in the Applications In Scope NumberInput. On step 1 the form holds
\* that one text-like input and no submit button (Back and Next are plain
\* buttons), so the browser submits the form and <form onSubmit> runs. Step 0
\* holds two NumberInputs, which blocks this; on step 2 the submit button is
\* the form's default button and Enter is a click on it.
SubmitEnter ==
    /\ currentStep = "questionnaire"
    /\ activeStep = 1
    /\ onSubmit

\* generateReport resolves: onComplete(report), that is App's
\* handleQuestionnaireComplete: setEstimationReport(report); setCurrentStep('report').
\* App then renders EstimationReport in place of QuestionnaireForm, whose state
\* is gone; the next mount starts from the defaults again.
ReportResolve ==
    /\ \E r \in reportRequests :
          /\ r.state = "inflight"
          /\ reportRequests' = (reportRequests \ {r}) \cup {[r EXCEPT !.state = "ok"]}
          /\ estimationReport' = [req |-> r.id, data |-> r.data]
    /\ currentStep' = "report"
    /\ formData' = formDefaults
    /\ activeStep' = 0
    /\ formLoading' = FALSE
    /\ error' = NoError
    /\ UNCHANGED <<formInstance, widgetVars, engineVars, retrievalVars>>

\* generateReport rejects: setError(detail || 'Failed to generate report');
\* setLoading(false). Both are no-ops once the form that made the call is
\* no longer mounted.
ReportReject ==
    /\ \E r \in reportRequests :
          /\ r.state = "inflight"
          /\ reportRequests' = (reportRequests \ {r}) \cup {[r EXCEPT !.state = "failed"]}
          /\ IF r.instance = formInstance /\ currentStep = "questionnaire"
             THEN /\ error' = "Failed to generate report"
                  /\ formLoading' = FALSE
             ELSE UNCHANGED <<error, formLoading>>
    /\ UNCHANGED <<formData, activeStep, formInstance, currentStep, estimationReport,
                   widgetVars, engineVars, retrievalVars>>

\* A variant of onBack that drops the report as well.
handleBackToQuestionnaireClearingReport ==
    /\ currentStep = "report"
    /\ formInstance < MaxFormInstances
    /\ currentStep' = "questionnaire"
    /\ estimationReport' = NoReport
    /\ formInstance' = formInstance + 1
    /\ UNCHANGED <<formData, activeStep, formLoading, error, reportRequests,
                   widgetVars, engineVars, retrievalVars>>

\* EstimationReport's onBack: setCurrentStep('questionnaire'); a new
\* QuestionnaireForm mounts.
handleBackToQuestionnaire ==
    /\ currentStep = "report"
    /\ formInstance < MaxFormInstances
    /\ currentStep' = "questionnaire"
    /\ formInstance' = formInstance + 1
    /\ UNCHANGED <<formData, activeStep, formLoading, error, reportRequests, estimationReport,
                   widgetVars, engineVars, retrievalVars>>

\* The widget mounted beside the form makes no call under the form (its gate
\* never holds), so it is left out of this specification.
InitWizard ==
    /\ WidgetIdle
    /\ EngineIdle
    /\ RetrievalIdle
    /\ WizardIdle

NextWizard ==
    \/ EditSource
    \/ EditTarget
    \/ EditGeneral
    \/ handleNext
    \/ handleBack
    \/ SubmitClick
    \/ SubmitEnter
    \/ ReportResolve
    \/ ReportReject
    \/ handleBackToQuestionnaire

SpecWizard == InitWizard /\ [][NextWizard]_vars

(***************************************************************************)
(* Estimation engine                                                       *)
(*                                                                         *)
(* Days are kept in units of 1/1000 day, fractions (adjustment, variance,  *)
(* similarity, confidence) in thousandths, so that every product below is  *)
(* exact in the integers.                                                  *)
(***************************************************************************)
Days(d) == d * 1000

\* A variant configuration with the HIGH threshold at three quarters.
ThresholdThreeQuarters == (3 * 1000) \div 4

\* RAG & Estimation settings
MAX_ESTIMATE_ADJUSTMENT == 200
CONFIDENCE_THRESHOLD_HIGH == 800
CONFIDENCE_THRESHOLD_MEDIUM == 600
VECTOR_SEARCH_SCORE_THRESHOLD == 700


RECURSIVE SumSeq(_)
SumSeq(s) == IF s = <<>> THEN 0 ELSE Head(s) + SumSeq(Tail(s))

RECURSIVE MaxSeq(_)
MaxSeq(s) == IF Len(s) = 1 THEN s[1]
             ELSE IF Head(s) >= MaxSeq(Tail(s)) THEN Head(s) ELSE MaxSeq(Tail(s))

RECURSIVE MinSeq(_)
MinSeq(s) == IF Len(s) = 1 THEN s[1]
             ELSE IF Head(s) <= MinSeq(Tail(s)) THEN Head(s) ELSE MinSeq(Tail(s))

Min(a, b) == IF a <= b THEN a ELSE b
Max(a, b) == IF a >= b THEN a ELSE b

\* A variant that adds the percentages up: 1 + 0.15 + 0.20 + 0.10.
complexityAdditive(profile) ==
    1000 + (IF profile.legacy_source THEN 150 ELSE 0)
         + (IF profile.mainframe THEN 200 ELSE 0)
         + (IF profile.has_custom_plugins THEN 100 ELSE 0)

\* Complexity multipliers: legacy source +15%, mainframe +20%, custom plugins +10%.
complexity(profile) ==
    LET legacy  == IF profile.legacy_source THEN 1150 ELSE 1000
        mainfr  == IF profile.mainframe THEN 1200 ELSE 1000
        plugins == IF profile.has_custom_plugins THEN 1100 ELSE 1000
    IN  (((legacy * mainfr) \div 1000) * plugins) \div 1000

\* A variant that migrates five flows a day.
computeBaselineFiveFlowsPerDay(profile) ==
    LET phases == <<Days(profile.flow_count) \div 5, profile.env_count * Days(3),
                    Days(5), Days(7), Days(20)>>
    IN  [phases |-> phases,
         total  |-> (SumSeq(phases) * complexity(profile)) \div 1000]

\* STEP 1, rules engine: the five components and
\* base_estimate = (migration_time + env_setup + target_config + buffer + fixed) * complexity
computeBaseline(profile) ==
    LET migration_time == (Days(profile.flow_count) \div 5) * 2
        env_setup      == profile.env_count * Days(3)
        target_config  == Days(5)
        buffer         == Days(7)
        fixed          == Days(20)
        phases         == <<migration_time, env_setup, target_config, buffer, fixed>>
    IN  [phases |-> phases,
         total  |-> (SumSeq(phases) * complexity(profile)) \div 1000]

\* A variant that forgets to divide by the number of projects.
avg_varianceUndivided(sims) ==
    SumSeq([i \in 1..Len(sims) |-> sims[i].variance])

\* STEP 2: avg_variance = (v1 + ... + vn) / n over the similar projects found.
avg_variance(sims) ==
    IF sims = <<>> THEN 0
    ELSE SumSeq([i \in 1..Len(sims) |-> sims[i].variance]) \div Len(sims)

\* A variant that does not bound the percentage.
clampAdjustmentUnbounded(pct) == pct

\* The adjustment percentage bounded to +/- MAX_ESTIMATE_ADJUSTMENT.
clampAdjustment(pct) == Max(0 - MAX_ESTIMATE_ADJUSTMENT, Min(MAX_ESTIMATE_ADJUSTMENT, pct))

\* A variant that takes every outcome for an answer.
analysisAvailableAlways(analysis) == TRUE

\* The analysis collaborator answered within its timeout.
analysisAvailable(analysis) == analysis.status = "ok"

\* Step 2: the variance-derived percentage, refined by the analysis when it is
\* available and there are neighbours whose notes it can draw on.
adjustmentPercentage(sims, analysis) ==
    IF sims = <<>> THEN 0
    ELSE IF analysisAvailable(analysis) THEN clampAdjustment(analysis.adjustment)
    ELSE clampAdjustment(avg_variance(sims))

\* The ceiling of the confidence of an estimate made without historical data.
NO_DATA_CONFIDENCE_CEILING == 500

clampConfidence(c) == Max(0, Min(1000, c))

\* Step 4: more neighbours, a tighter spread of their variances and a more
\* complete profile raise the confidence; an available analysis adds a bonus.
confidenceScore(sims, profile, analysis) ==
    LET n        == Len(sims)
        vs       == [i \in 1..n |-> sims[i].variance]
        count    == Min(400, 200 * n)
        spread   == IF n = 0 THEN 0 ELSE Max(0, 200 - (MaxSeq(vs) - MinSeq(vs)))
        complete == Max(0, 300 - 100 * profile.missing)
        bonus    == IF analysisAvailable(analysis) THEN 100 ELSE 0
        raw      == 100 + count + spread + complete + bonus
    IN  clampConfidence(IF n = 0 THEN Min(NO_DATA_CONFIDENCE_CEILING, raw) ELSE raw)

\* HIGH / MEDIUM / LOW by the configured thresholds.
confidenceLevel(c) ==
    IF c >= CONFIDENCE_THRESHOLD_HIGH THEN "HIGH"
    ELSE IF c >= CONFIDENCE_THRESHOLD_MEDIUM THEN "MEDIUM"
    ELSE "LOW"

\* Step 5(b): risks triggered by the profile alone.
structuralRisks(profile) ==
    (IF profile.has_custom_plugins THEN {"custom extensions present"} ELSE {})
    \cup (IF profile.infrastructure_migration THEN {"infrastructure migration requested"} ELSE {})

\* A variant that keeps whatever the analysis sent, also in the degraded path.
narrativeRisksUnchecked(sims, analysis) == analysis.risks

\* Step 5(a): risks drawn from the neighbours' outcome notes by the analysis.
narrativeRisks(sims, analysis) ==
    IF sims # <<>> /\ analysisAvailable(analysis) THEN analysis.risks ELSE {}

\* synthesize(baseline, similarityResults, profile) -> Estimate
synthesize(baseline, sims, profile, analysis) ==
    LET adj  == adjustmentPercentage(sims, analysis)
        conf == confidenceScore(sims, profile, analysis)
    IN  [ used                 |-> TRUE,
          baseline             |-> baseline,
          adjustmentPercentage |-> adj,
          \* amounts after adjustment are in units of 1/(1000 * 1000) day
          adjustedTotal        |-> baseline.total * (1000 + adj),
          breakdown            |-> [i \in 1..Len(baseline.phases) |->
                                       baseline.phases[i] * (1000 + adj)],
          confidence           |-> conf,
          confidence_level     |-> confidenceLevel(conf),
          risks                |-> structuralRisks(profile) \cup narrativeRisks(sims, analysis),
          analysis_degraded    |-> ~analysisAvailable(analysis),
          similar_projects     |-> sims ]

\* Engine inputs
Profiles ==
    [ flow_count : {100, 150}, env_count : {1, 4},
      legacy_source : BOOLEAN, mainframe : BOOLEAN, has_custom_plugins : BOOLEAN,
      infrastructure_migration : BOOLEAN, missing : {0, 1} ]

\* Similar projects the corpus may return: similarity and variance in thousandths.
Neighbours ==
    { [score |-> 940, variance |-> 127],
      [score |-> 890, variance |-> 35],
      [score |-> 700, variance |-> 0],
      [score |-> 940, variance |-> 5000],
      [score |-> 700, variance |-> 0 - 3000] }

\* Retrieval returns at most MaxNeighbours results by descending similarity.
SimilarityResults ==
    { s \in UNION {[1..n -> Neighbours] : n \in 0..MaxNeighbours} :
         /\ \A i \in 1..Len(s) : s[i].score >= VECTOR_SEARCH_SCORE_THRESHOLD
         /\ \A i \in 1..(Len(s) - 1) : s[i].score >= s[i + 1].score }

\* What the natural-language analysis step may come back with.
AnalysisOutcomes ==
    { [status |-> "absent",  adjustment |-> 0, risks |-> {}],
      [status |-> "failed",  adjustment |-> 0, risks |-> {}],
      [status |-> "timeout", adjustment |-> 0, risks |-> {}],
      [status |-> "ok", adjustment |-> 120,      risks |-> {"custom plugin compatibility"}],
      [status |-> "ok", adjustment |-> 9000,     risks |-> {"container networking"}],
      [status |-> "ok", adjustment |-> 0 - 9000, risks |-> {}] }

InitEngine ==
    /\ WidgetIdle
    /\ WizardIdle
    /\ RetrievalIdle
    /\ engineIn \in [used : {TRUE}, profile : Profiles, sims : SimilarityResults,
                     analysis : AnalysisOutcomes]
    /\ engineOut = NoInput

\* One invocation of the pipeline: rules calculator, then synthesis.
RunEngine ==
    /\ engineIn # NoInput
    /\ engineOut = NoInput
    /\ engineOut' = synthesize(computeBaseline(engineIn.profile), engineIn.sims,
                               engineIn.profile, engineIn.analysis)
    /\ UNCHANGED <<engineIn, widgetVars, wizardVars, retrievalVars>>

NextEngine == RunEngine

SpecEngine == InitEngine /\ [][NextEngine]_vars

(***************************************************************************)
(* Claims about the live estimate widget                                   *)
(***************************************************************************)
\* The most recently initiated call.
latestRequest == Cardinality(requests)

\* C1: whenever a result is written to the displayed estimate, it is the result
\* of the most recently initiated computation; a result of a computation that a
\* newer one has superseded is never written.
C1_StaleResultNeverSurfaced ==
    [][emitted' # emitted => estimate'.req = latestRequest]_vars

\* Three prop changes arrived within one debounce window (each before the timer
\* of the one before fired), the window has ended, and the last props have the
\* minimum fields.
C2_ThreeInOneWindow ==
    /\ mutations = 3
    /\ {1, 2} \subseteq superseded
    /\ timers = {}
    /\ hasMinimalData(questionnaireData)

C3_IncompleteProfileEmitsPartial ==
    [][\A t \in timers :
          (t \notin timers' /\ t.mut \in fired' \ fired /\ ~hasMinimalData(t.data))
              => /\ requests' = requests
                 /\ estimate' # NoEstimate
                 /\ estimate'.data = t.data
                 /\ ~estimate'.is_complete
                 /\ estimate'.missing_fields # {}]_vars

\* C4: the form can bring the widget to compute: once the form holds a positive
\* flow count and the timer of the last form change has fired, a live-estimate
\* computation has been initiated for it.
C4_FormReachesLiveEstimate ==
    (questionnaireData.total_flows # 0 /\ mutations \in fired)
        => \E r \in requests : r.mut = mutations

\* C4 (what the code does): no form change writes team_band, so with the form
\* as parent the gate never holds and no computation is ever initiated.
C4_TeamBandNeverWritten == [][questionnaireData'.team_band = questionnaireData.team_band]_vars

C4_NoComputationFromForm ==
    /\ ~hasMinimalData(questionnaireData)
    /\ requests = {}
    /\ estimate = NoEstimate
    /\ view = "empty"

(***************************************************************************)
(* Claims about the estimation engine                                      *)
(***************************************************************************)
\* C5: the magnitude of adjustmentPercentage of every Estimate is at most 20%,
\* whatever the neighbours' variances and whatever the analysis returned.
C5_AdjustmentWithinCap ==
    engineOut.used =>
        /\ engineOut.adjustmentPercentage <= 200
        /\ engineOut.adjustmentPercentage >= 0 - 200

C5_Witness ==
    /\ engineOut.used
    /\ engineIn.sims # <<>>
    /\ engineIn.analysis.status = "ok"
    /\ engineIn.analysis.adjustment > 200
    /\ engineOut.adjustmentPercentage = 200

\* C6: the per-phase days of every Estimate are the baseline phases scaled by
\* (1 + adjustmentPercentage) and sum to
\* adjustedTotal = baselineTotal * (1 + adjustmentPercentage).
C6_BreakdownSumsToAdjustedTotal ==
    engineOut.used =>
        /\ engineOut.adjustedTotal =
              engineOut.baseline.total * (1000 + engineOut.adjustmentPercentage)
        /\ \A i \in 1..Len(engineOut.breakdown) :
              engineOut.breakdown[i] =
                 engineOut.baseline.phases[i] * (1000 + engineOut.adjustmentPercentage)
        /\ SumSeq(engineOut.breakdown) = engineOut.adjustedTotal

\* C7: the phase days computeBaseline returns sum to the baseline total it
\* returns, for every profile, whatever its complexity factor.
C7_BaselinePhasesSumToTotal ==
    engineOut.used => SumSeq(engineOut.baseline.phases) = engineOut.baseline.total

\* C7 (what the code does): the total is the phase sum times the complexity
\* factor, so the two agree exactly when the factor is 1.
C7_TotalIsPhaseSumTimesComplexity ==
    engineOut.used =>
        engineOut.baseline.total * 1000 =
            SumSeq(engineOut.baseline.phases) * complexity(engineIn.profile)

\* C8 (as stated): confidence is in [0,1]; the level is HIGH exactly when
\* confidence >= 0.75, MEDIUM exactly when 0.5 <= confidence < 0.75, LOW otherwise.
C8_ConfidenceLevelAt75And50 ==
    engineOut.used =>
        /\ engineOut.confidence \in 0..1000
        /\ engineOut.confidence_level =
              (IF engineOut.confidence >= 750 THEN "HIGH"
               ELSE IF engineOut.confidence >= 500 THEN "MEDIUM" ELSE "LOW")

\* C8 (amended): confidence is in [0,1]; the level is HIGH exactly when
\* confidence >= 0.8, MEDIUM exactly when 0.6 <= confidence < 0.8, LOW otherwise.
C8_ConfidenceLevelAt80And60 ==
    engineOut.used =>
        /\ engineOut.confidence \in 0..1000
        /\ engineOut.confidence_level =
              (IF engineOut.confidence >= 800 THEN "HIGH"
               ELSE IF engineOut.confidence >= 600 THEN "MEDIUM" ELSE "LOW")

C8_Witness ==
    /\ engineOut.used
    /\ engineOut.confidence >= 750
    /\ engineOut.confidence < 800
    /\ engineOut.confidence_level = "MEDIUM"

C11_EveryEndedRequestYieldsEstimate ==
    (/\ mutations \in fired
     /\ \A r \in requests : r.mut = mutations => r.state # "inflight")
        => /\ estimate # NoEstimate
           /\ estimate.data = questionnaireData
           /\ ~hasMinimalData(questionnaireData) =>
                 (~estimate.is_complete /\ estimate.missing_fields # {})

\* An Estimate that breaks its own contract: an adjustment beyond the hard cap,
\* or a breakdown that does not sum to the adjusted total.
violatesContract(e) ==
    \/ e.adjustmentPercentage > MAX_ESTIMATE_ADJUSTMENT
    \/ e.adjustmentPercentage < 0 - MAX_ESTIMATE_ADJUSTMENT
    \/ SumSeq(e.breakdown) # e.adjustedTotal

\* C12: whatever the pipeline hands back to its caller as an Estimate keeps the
\* cap and the sum invariant; a computation that would break either is aborted
\* and returns no Estimate.
C12_NoViolatingEstimateReturned ==
    engineOut # NoInput => ~violatesContract(engineOut)

\* Full-completeness validation: the three section checks of isStepValid.
fullyComplete(data) ==
    /\ isStepValid(0, data)
    /\ isStepValid(1, data)
    /\ isStepValid(2, data)

\* C13: every generateReport call was made with a profile for which all three
\* section checks held at the moment of the call.
C13_ReportOnlyForCompleteProfile ==
    \A r \in reportRequests : fullyComplete(r.data)

\* The steps behind the active one are valid: Next is the only way forward and
\* the inputs of a section are on screen on its own step only.
C13_StepsBehindAreValid ==
    /\ activeStep \in 0..2
    /\ activeStep >= 1 => isStepValid(0, formData)
    /\ activeStep = 2 => isStepValid(1, formData)

\* A call made from the last step, by the Generate Report button, carries a
\* complete profile.
C13_ButtonSubmitsCompleteProfile ==
    \A r \in reportRequests : r.step = 2 => fullyComplete(r.data)

\* The widget with the scheduling the event loop guarantees: a pending timer
\* fires. The axios client is created without a timeout, so nothing in the code
\* makes a call in flight settle.
SpecLive == Init /\ [][Next]_vars /\ WF_vars(TimerFire)

\* C14: a live-estimate computation that has been initiated completes: the
\* widget does not stay in its loading state forever.
C14_LoadingEventuallyEnds == loading ~> ~loading

\* The session's state as the widget holds it: Pending while a debounce timer
\* or a call is outstanding, Settled once an Estimate has been emitted and
\* nothing is outstanding.
sessionState ==
    IF timers # {} \/ \E r \in requests : r.state = "inflight" THEN "Pending"
    ELSE IF emitted > 0 THEN "Settled"
    ELSE "Idle"

\* C15: when the session is Settled and the computation of the last mutation
\* has resolved, the Estimate on display is the one of that computation, never
\* one computed from an earlier profile.
C15_SettledWithLastEstimate ==
    \A r \in requests :
        (sessionState = "Settled" /\ r.mut = mutations /\ r.state = "ok")
            => (estimate.req = r.id /\ estimate.data = questionnaireData)

\* Each prop change moves the session to Pending.
C15_MutationMovesToPending ==
    [][mutations' # mutations => sessionState' = "Pending"]_vars

(***************************************************************************)
(* Similarity retrieval, followed by the engine                            *)
(***************************************************************************)
\* Historical records of the corpus, each with its similarity to the query in
\* thousandths, the year it was recorded and its variance in thousandths.
HistoricalRecords ==
    { [id |-> 1, score |-> 940, recency |-> 2023, variance |-> 127],
      [id |-> 2, score |-> 940, recency |-> 2024, variance |-> 35],
      [id |-> 3, score |-> 890, recency |-> 2022, variance |-> 0],
      [id |-> 4, score |-> 760, recency |-> 2024, variance |-> 81],
      [id |-> 5, score |-> 650, recency |-> 2024, variance |-> 5000] }

Corpora == SUBSET HistoricalRecords

\* A variant order that does not look at recency.
beforeByScoreOnly(a, b) ==
    \/ a.score > b.score
    \/ a.score = b.score /\ a.id < b.id

\* Result order: descending similarity, ties by recency, most recent first
\* (then by record id, so that the order is total).
before(a, b) ==
    \/ a.score > b.score
    \/ a.score = b.score /\ a.recency > b.recency
    \/ a.score = b.score /\ a.recency = b.recency /\ a.id < b.id

RECURSIVE rank(_)
rank(records) ==
    IF records = {} THEN <<>>
    ELSE LET first == CHOOSE a \in records : \A b \in records \ {a} : before(a, b)
         IN  <<first>> \o rank(records \ {first})

take(s, k) == SubSeq(s, 1, Min(k, Len(s)))

\* A variant that takes both collaborators to be there.
collaboratorsAvailableAlways(in) == TRUE

\* The embedding step and the corpus collaborator both answered.
collaboratorsAvailable(in) == in.embedding = "ok" /\ in.store = "ok"

\* retrieveSimilar(profile, topK, minScore) -> ordered list of SimilarityResult
retrieveSimilar(in, topK, minScore) ==
    IF ~collaboratorsAvailable(in) THEN <<>>
    ELSE take(rank({r \in in.corpus : r.score >= minScore}), topK)

MinScoreValues == {VECTOR_SEARCH_SCORE_THRESHOLD, 900}

PipelineProfiles ==
    { p \in Profiles : /\ p.flow_count = 100 /\ p.env_count = 1 /\ p.missing = 0
                       /\ ~p.legacy_source /\ ~p.mainframe }

InitPipeline ==
    /\ WidgetIdle
    /\ WizardIdle
    /\ EngineIdle
    /\ retrievalIn \in [used : {TRUE}, corpus : Corpora,
                        embedding : {"ok", "unavailable"}, store : {"ok", "unavailable"},
                        topK : 1..MaxNeighbours, minScore : MinScoreValues,
                        profile : PipelineProfiles, analysis : AnalysisOutcomes]
    /\ retrieved = NoInput

\* The adapter runs and hands its list to the synthesizer.
Retrieve ==
    /\ retrievalIn # NoInput
    /\ retrieved = NoInput
    /\ LET sims == retrieveSimilar(retrievalIn, retrievalIn.topK, retrievalIn.minScore)
       IN  /\ retrieved' = [used |-> TRUE, sims |-> sims]
           /\ engineIn' = [used |-> TRUE, profile |-> retrievalIn.profile, sims |-> sims,
                           analysis |-> retrievalIn.analysis]
    /\ UNCHANGED <<retrievalIn, engineOut, widgetVars, wizardVars>>

NextPipeline == Retrieve \/ RunEngine

SpecPipeline == InitPipeline /\ [][NextPipeline]_vars

retrievalDegraded ==
    \/ retrievalIn.embedding = "unavailable"
    \/ retrievalIn.store = "unavailable"
    \/ retrievalIn.corpus = {}

ExampleProfiles ==
    { p \in Profiles : p.flow_count = 100 /\ p.env_count = 1 /\ ~p.has_custom_plugins }

\* Similar projects of the ten-neighbour example, all at similarity >= 0.8.
ExampleNeighbours ==
    { [score |-> 900, variance |-> 50],
      [score |-> 900, variance |-> 150],
      [score |-> 850, variance |-> 100] }

\* Ten neighbours by descending similarity whose variances average +10%.
TenNeighbours ==
    { s \in [1..10 -> ExampleNeighbours] :
         /\ \A i \in 1..9 : s[i].score >= s[i + 1].score
         /\ SumSeq([i \in 1..10 |-> s[i].variance]) = 10 * 100 }

InitExamples ==
    /\ WidgetIdle
    /\ WizardIdle
    /\ RetrievalIdle
    /\ engineIn \in [used : {TRUE}, profile : ExampleProfiles, sims : TenNeighbours,
                     analysis : AnalysisOutcomes]
    /\ engineOut = NoInput

NextExamples == RunEngine

SpecExamples == InitExamples /\ [][NextExamples]_vars

\* The profile of the worked examples.
exampleProfile ==
    /\ engineIn.profile.flow_count = 100
    /\ engineIn.profile.env_count = 1
    /\ ~engineIn.profile.has_custom_plugins

exampleTenNeighbours ==
    /\ Len(engineIn.sims) = 10
    /\ \A i \in 1..10 : engineIn.sims[i].score >= 800
    /\ SumSeq([i \in 1..10 |-> engineIn.sims[i].variance]) = 10 * 100

tableFactor(profile) ==
    CASE  profile.legacy_source /\  profile.mainframe /\  profile.has_custom_plugins -> 1518
      []  profile.legacy_source /\  profile.mainframe /\ ~profile.has_custom_plugins -> 1380
      []  profile.legacy_source /\ ~profile.mainframe /\  profile.has_custom_plugins -> 1265
      [] ~profile.legacy_source /\  profile.mainframe /\  profile.has_custom_plugins -> 1320
      []  profile.legacy_source /\ ~profile.mainframe /\ ~profile.has_custom_plugins -> 1150
      [] ~profile.legacy_source /\  profile.mainframe /\ ~profile.has_custom_plugins -> 1200
      [] ~profile.legacy_source /\ ~profile.mainframe /\  profile.has_custom_plugins -> 1100
      [] OTHER -> 1000

CountValues == {0 - 1, 0, 3}

\* The configurable-services NumberInput of SourceEnvironment:
\* setValue('source_environment.configurable_services', Number(value)).
\* No step check reads the field, so SpecWizard leaves this input out.
EditConfigurableServices ==
    /\ currentStep = "questionnaire"
    /\ activeStep = 0
    /\ \E n \in CountValues \ {formData.configurable_services} :
          formData' = [formData EXCEPT !.configurable_services = n]
    /\ UNCHANGED <<activeStep, formLoading, error, reportRequests, formInstance, currentStep,
                   estimationReport, widgetVars, engineVars, retrievalVars>>

\* The applications-in-scope NumberInput of TargetEnvironment.
EditApplicationsInScope ==
    /\ currentStep = "questionnaire"
    /\ activeStep = 1
    /\ \E n \in CountValues \ {formData.applications_in_scope} :
          formData' = [formData EXCEPT !.applications_in_scope = n]
    /\ UNCHANGED <<activeStep, formLoading, error, reportRequests, formInstance, currentStep,
                   estimationReport, widgetVars, engineVars, retrievalVars>>

\* The questionnaire up to the call its Generate Report button makes; what
\* becomes of the call has no bearing on the profile it was made with.
NextProfile ==
    \/ EditSource
    \/ EditConfigurableServices
    \/ EditTarget
    \/ EditApplicationsInScope
    \/ EditGeneral
    \/ handleNext
    \/ handleBack
    \/ SubmitClick

SpecProfile == InitWizard /\ [][NextProfile]_vars

\* Every numeric field of the profile is >= 0. (The set-valued fields are sets
\* here, as the checkbox groups make them: one entry per checked box.)
numericFieldsNonNegative(data) ==
    /\ data.total_flows >= 0
    /\ data.configurable_services >= 0
    /\ data.applications_in_scope >= 0

\* C21: in every state of the questionnaire, and for every profile handed to
\* generateReport, each numeric field is >= 0.
C21_ProfileInvariant ==
    /\ numericFieldsNonNegative(formData)
    /\ \A r \in reportRequests : numericFieldsNonNegative(r.data)

\* The part of C21 about the profiles handed to generateReport.
C21_ReportProfileInvariant ==
    \A r \in reportRequests : r.step = 2 => numericFieldsNonNegative(r.data)

(***************************************************************************)
(* Claims about the synthesizer's average and the rules calculator         *)
(***************************************************************************)
\* The similarity-weighted mean of the variances: sum of score * variance over
\* the sum of the scores, and 0 for no neighbours.
weightedVariance(sims) ==
    IF sims = <<>> THEN 0
    ELSE SumSeq([i \in 1..Len(sims) |-> sims[i].score * sims[i].variance])
            \div SumSeq([i \in 1..Len(sims) |-> sims[i].score])

\* C22: the average variance the synthesizer works with is the
\* similarity-weighted mean of the neighbours' variances; where the analysis is
\* not available it is, cut to the cap, the adjustment of the Estimate.
C22_WeightedAverageVariance ==
    engineOut # NoInput =>
        /\ avg_variance(engineIn.sims) = weightedVariance(engineIn.sims)
        /\ (engineIn.sims # <<>> /\ engineIn.analysis.status # "ok") =>
              engineOut.adjustmentPercentage =
                 Max(0 - 200, Min(200, weightedVariance(engineIn.sims)))

\* With no neighbours the average variance is 0.
C22_NoNeighboursNoVariance ==
    (engineOut # NoInput /\ engineIn.sims = <<>>) =>
        (avg_variance(engineIn.sims) = 0 /\ engineOut.adjustmentPercentage = 0)

\* An optional numeric field: absent, or present with its value.
Absent == <<>>

Present(n) == <<n>>

\* Profiles whose optional numeric fields may be absent.
PartialProfiles ==
    [ flow_count : {Absent, Present(100)}, env_count : {Absent, Present(4)},
      legacy_source : BOOLEAN, mainframe : BOOLEAN, has_custom_plugins : BOOLEAN,
      infrastructure_migration : {FALSE}, missing : {0} ]

\* Missing optional numeric fields default to zero.
withDefaults(profile) ==
    [profile EXCEPT !.flow_count = IF @ = Absent THEN 0 ELSE @[1],
                    !.env_count  = IF @ = Absent THEN 0 ELSE @[1]]

\* A variant of the calculator that looks at the similar projects of the moment.
rulesCalculatorConsultingCorpus(profile) ==
    LET b == computeBaseline(withDefaults(profile))
    IN  [b EXCEPT !.total = @ + Days(Len(engineIn.sims))]

\* The rules calculator as its callers reach it: defaulting, then STEP 1.
rulesCalculator(profile) == computeBaseline(withDefaults(profile))

\* What the corpus returns for the profile at a given moment.
BaselineCorpora == {s \in SimilarityResults : Len(s) <= 1}

InitBaseline ==
    /\ WidgetIdle
    /\ WizardIdle
    /\ RetrievalIdle
    /\ engineIn \in [used : {TRUE}, profile : PartialProfiles, sims : BaselineCorpora]
    /\ engineOut = [used |-> TRUE, runs |-> <<>>]

\* One more call of the calculator on the same profile.
CallComputeBaseline ==
    /\ Len(engineOut.runs) < MaxBaselineCalls
    /\ engineOut' = [engineOut EXCEPT !.runs =
                        Append(@, [result |-> rulesCalculator(engineIn.profile),
                                   corpus |-> engineIn.sims])]
    /\ UNCHANGED <<engineIn, widgetVars, wizardVars, retrievalVars>>

\* An external collaborator writes to the corpus: the similar projects change.
CorpusChanges ==
    /\ \E s \in BaselineCorpora \ {engineIn.sims} : engineIn' = [engineIn EXCEPT !.sims = s]
    /\ UNCHANGED <<engineOut, widgetVars, wizardVars, retrievalVars>>

NextBaseline == CallComputeBaseline \/ CorpusChanges

SpecBaseline == InitBaseline /\ [][NextBaseline]_vars

C24_MissingFieldsSurfaced ==
    (estimate # NoEstimate /\ ~estimate.is_complete /\ ~loading)
        => (missingFieldsShown /\ view # "empty")

\* The markers are shown for an estimate that is complete and still lists
\* missing fields.
C24_MarkersShownWhenComplete ==
    (estimate # NoEstimate /\ estimate.is_complete /\ estimate.missing_fields # {} /\ ~loading)
        => missingFieldsShown

inFlight == {r \in requests : r.state = "inflight"}

\* C25: loading is true if and only if at least one live-estimate call of the
\* widget is in flight.
C25_LoadingIffInFlight == loading <=> inFlight # {}

\* Loading is never shown without a call in flight.
C25_LoadingOnlyWhileInFlight == loading => inFlight # {}

\* C26: a step in which a live-estimate call fails leaves the estimate and the
\* count of estimates shown unchanged and ends with loading false, so that the
\* view is what it was before the call or the empty state, never an error.
C26_FailureFrame ==
    [][ (\E r \in requests : r.state = "inflight" /\ [r EXCEPT !.state = "failed"] \in requests')
          => /\ estimate' = estimate
             /\ emitted' = emitted
             /\ loading' = FALSE
             /\ view' \in {"estimate", "empty"} ]_vars

\* A call has failed after an estimate was shown, and that estimate is still shown.
C26_Witness ==
    /\ \E r \in requests : r.state = "failed" /\ r.id > estimate.req
    /\ estimate # NoEstimate
    /\ estimate.is_complete
    /\ inFlight = {}
    /\ view = "estimate"

\* C27: activeStep stays in {0, 1, 2} and every section check of the steps
\* before it holds for the current form data; it goes up by one only from a
\* step below 2 whose own check holds (Next), and down by one only from a
\* step above 0 (Back), the form's unmount apart.
C27_StepBoundsAndGating ==
    /\ [](/\ activeStep \in {0, 1, 2}
          /\ \A k \in 0..1 : k < activeStep => isStepValid(k, formData))
    /\ [][ /\ activeStep' > activeStep =>
                /\ activeStep < 2
                /\ activeStep' = activeStep + 1
                /\ isStepValid(activeStep, formData)
           /\ (activeStep' < activeStep /\ currentStep' = currentStep) =>
                /\ activeStep > 0
                /\ activeStep' = activeStep - 1 ]_vars

\* The last step has been reached, through Next twice.
C27_Witness ==
    /\ currentStep = "questionnaire"
    /\ activeStep = 2
    /\ isStepValid(0, formData)
    /\ isStepValid(1, formData)

\* The request that turns to the given state in this step, if there is one.
settles(r, state) ==
    /\ r \in reportRequests
    /\ r.state = "inflight"
    /\ reportRequests' = (reportRequests \ {r}) \cup {[r EXCEPT !.state = state]}

\* C28: the report view always has a report; it is entered only in a step in
\* which a generateReport call succeeds, with that call's report; going back
\* to the questionnaire leaves the report and the requests as they are.
C28_ReportViewHasReport ==
    /\ [](currentStep = "report" => estimationReport # NoReport)
    /\ [][ /\ (currentStep = "questionnaire" /\ currentStep' = "report") =>
                \E r \in reportRequests :
                   /\ settles(r, "ok")
                   /\ estimationReport' = [req |-> r.id, data |-> r.data]
           /\ (currentStep = "report" /\ currentStep' = "questionnaire") =>
                /\ estimationReport' = estimationReport
                /\ reportRequests' = reportRequests ]_vars

\* The user is back on the questionnaire and App still holds the report.
C28_Witness ==
    /\ currentStep = "questionnaire"
    /\ formInstance = 2
    /\ estimationReport # NoReport
    /\ \E r \in reportRequests : r.state = "ok" /\ estimationReport.req = r.id

\* C29: a generateReport call that fails leaves the questionnaire view with
\* its form data, an error message and loading false; one that succeeds hands
\* its report to App with error still null; a new submission clears the error.
C29_SubmissionOutcome ==
    [][ /\ \A r \in reportRequests : settles(r, "failed") =>
              /\ error' # NoError
              /\ ~formLoading'
              /\ currentStep' = "questionnaire"
              /\ formData' = formData
              /\ estimationReport' = estimationReport
        /\ \A r \in reportRequests : settles(r, "ok") =>
              /\ error = NoError
              /\ estimationReport' = [req |-> r.id, data |-> r.data]
              /\ currentStep' = "report"
        /\ Cardinality(reportRequests') > Cardinality(reportRequests) =>
              (error' = NoError /\ formLoading') ]_vars

\* The outcome is as described for a call that is the only one made so far.
C29_OutcomeOfSoleRequest ==
    [][ \A r \in reportRequests : reportRequests = {r} =>
          /\ settles(r, "failed") =>
                /\ error' # NoError
                /\ ~formLoading'
                /\ currentStep' = "questionnaire"
                /\ formData' = formData
                /\ estimationReport' = estimationReport
          /\ settles(r, "ok") =>
                /\ error = NoError
                /\ estimationReport' = [req |-> r.id, data |-> r.data]
                /\ currentStep' = "report" ]_vars

reportsInFlight == {r \in reportRequests : r.state = "inflight"}

\* C30: at most one generateReport request of the form is in flight.
C30_SingleReportRequestInFlight == Cardinality(reportsInFlight) <= 1

\* The Generate Report button starts a request only while loading is false.
C30_ButtonOnlyWhileNotLoading ==
    [][ (\E r \in reportRequests' : r.id > Cardinality(reportRequests) /\ r.step = 2)
          => ~formLoading ]_vars

====
